---- MODULE Spec2Model ----
(***************************************************************************)
(* A state-machine model of the Playwright page object EditorPage          *)
(* (packages/calypso-e2e/src/lib/pages/editor-page.ts).                    *)
(*                                                                         *)
(* One workflow call of the page object is in progress at a time (call),   *)
(* it advances from one await to the next (pc, cur, todo), and the browser *)
(* around it (url, iframeLoaded, the outcome of every awaited primitive)   *)
(* moves on its own.  A step of the model is one turn of the JavaScript    *)
(* event loop: the settling of one awaited promise together with the       *)
(* synchronous code that runs up to the next await.                        *)
(***************************************************************************)
EXTENDS Integers, Sequences, FiniteSets

VARIABLES
    viewport,            \* envVariables.VIEWPORT_NAME
    requiresGutenframe,  \* EditorPage.requiresGutenframe
    frameLocator,        \* EditorPage.frameLocator: the selector it was built from
    url,                 \* what page.url() is: "calypso" or "wp-admin"
    iframeLoaded,        \* whether selectors.editorFrame matches an element
    open,                \* the panels of the editor that are open
    shown,               \* whether the page shows the published post's content
    prev,                \* the close operation the test called just before
    call,                \* the workflow in progress, "idle" when none is
    pc,                  \* the await the workflow is suspended at
    cur,                 \* the awaited primitive of a straight-line workflow
    todo,                \* the primitives that follow cur
    visit,               \* publish's option
    tabs,                \* the settings tabs the sidebar shows
    log,                 \* the UI primitives issued by the call, in order
    result,              \* what the call gave its caller
    gef,                 \* the getEditorFrame invocation of the call
    frame,               \* the call's local variable `frame`
    tasks,               \* the promises handed to Promise.race / Promise.all
    race,                \* the promise Promise.race returned
    blockHandle,         \* addBlock's local variable `blockHandle`
    failed,              \* the awaited step of the call that was last rejected
    text,                \* the argument of enterTitle / enterText
    readBack,            \* what getTitle / getText returned
    selectedResultIndex, \* InlineHelpSearchCard props.selectedResultIndex
    selectedResult,      \* InlineHelpSearchCard props.selectedResult
    event,               \* the key event onKeyDown handled last
    called,              \* the prop onKeyDown called for that event
    driver,              \* buildHooks' local variable `driver`, 0 when undefined
    started,             \* how many createBrowser calls have been made
    creating,            \* the createBrowser calls whose await is pending
    closed,              \* the drivers that closeBrowser has been given
    completed,           \* the driver of the createBrowser call that completed last
    lastCall,            \* what the hook called last did
    mounted,             \* BlockFramePreview: "no", "mounted" or "unmounted"
    viewportWidth,       \* props.viewportWidth, 0 when undefined
    iframeRef,           \* whether iframeRef.current is an iframe with a parentNode
    jQuery,              \* whether window.jQuery is there
    parentWidth,         \* parentNode.offsetWidth
    style,               \* the component's state `style`
    resizeListeners,     \* the component's listeners of the window's resize event
    collapseListeners,   \* the component's handlers of wp-collapse-menu
    orphans,             \* pending debounced calls of listeners already removed
    lateRescales         \* how many times rescale has run after unmount

vars == << viewport, requiresGutenframe, frameLocator, url, iframeLoaded, open,
           shown, prev, call,
           pc, cur, todo, visit, tabs, log, result, gef, frame, tasks, race,
           blockHandle, failed, text, readBack,
           selectedResultIndex, selectedResult, event, called,
           driver, started, creating, closed, completed, lastCall,
           mounted, viewportWidth, iframeRef, jQuery, parentWidth, style,
           resizeListeners, collapseListeners, orphans, lateRescales >>

\* The variables of the editor page object and of its browser.
editor == << viewport, requiresGutenframe, frameLocator, url, iframeLoaded, open,
             shown, prev, call,
             pc, cur, todo, visit, tabs, log, result, gef, frame, tasks, race,
             blockHandle, failed, text, readBack >>

\* The variables of InlineHelpSearchCard.
keys == << selectedResultIndex, selectedResult, event, called >>

\* The variables of the components beside the editor page object.
\* The variables of the hooks buildHooks() returns.
hooks == << driver, started, creating, closed, completed, lastCall >>

\* The variables of BlockFramePreview.
preview == << mounted, viewportWidth, iframeRef, jQuery, parentWidth, style,
             resizeListeners, collapseListeners, orphans, lateRescales >>

components == << keys, hooks, preview >>

(***************************************************************************)
(* Bounds of the model.                                                    *)
(***************************************************************************)
\* The longest title or body text tried.
MaxLen == 3

\* The number of times reloadAndRetry tries the function it is given.
RetryBudget == 2

\* The number of times a waitForFunction evaluates its predicate before its
\* timeout.
MaxPolls == 2

\* The most search results the inline help lists.
MaxResults == 3

\* The most createBrowser calls of one test run.
MaxDrivers == 3

\* The widest viewport and the widest wrapper of the preview, in model pixels.
MaxWidth == 2

\* The most debounced calls left pending by listeners already removed.
MaxPending == 2

(***************************************************************************)
(* Values.                                                                 *)
(***************************************************************************)
Viewports == {"mobile", "tablet", "desktop"}

\* selectors.editorFrame, the selector of the Gutenframe.
editorFrame == "editorFrame"

TaskNames == {"getPublishedURL", "getPublishedURLFromToast",
              "clickTab(Page)", "clickTab(Post)",
              "waitForNavigation(home)", "waitForNavigation(posts)",
              "waitForNavigation(pages)", "exitAction",
              "closePanel", "closeSidebar", "closeSettings"}

NoTasks == [t \in TaskNames |-> "none"]

Pending == [status |-> "pending", value |-> "none"]
Ok(v) == [status |-> "ok", value |-> v]
Err(e) == [status |-> "error", value |-> e]
NoResult == [status |-> "none", value |-> "none"]

NoGef == [status |-> "none", by |-> "none", ret |-> "none", looked |-> FALSE,
          notice |-> FALSE, urlAtCall |-> "none", iframeAtCall |-> FALSE,
          lookup |-> "none"]

\* The characters of the titles and texts tried, and those trim() strips.
WhiteSpace == {" ", "\t"}
Chars == WhiteSpace \cup {"a"}
Strings == UNION {[1..n -> Chars] : n \in 0..MaxLen}

\* readBack before getTitle / getText has returned.
Unread == << "unread" >>

\* A UI primitive and what it is issued on: the page, a frame, the frame
\* locator, or one of the panel components.
Entry(op, on) == [op |-> op, on |-> on]
NoEntry == Entry("none", "none")

\* The functions of EditorPage that keep the resolved frame in a local variable.
FrameHolders == {"waitUntilLoaded", "forceDismissWelcomeTour", "unpublish",
                 "getPublishedURLFromToast"}

NoFrames == [f \in FrameHolders |-> "none"]

\* What the editor can show open beside the document: the publish panel, the
\* navigation sidebar, the settings sidebar and a preview size.
Panels == {"publishPanel", "navSidebar", "settings", "preview"}

\* The close operations of EditorPage.
CloseCalls == {"closeAllPanels", "closeSettings", "closePreview"}

\* The operations of which the test's previous call is remembered while the
\* call in progress repeats it.
Remembered == CloseCalls \cup {"getEditorFrame"}

NoPrev == [call |-> "none", status |-> "none", value |-> "none",
           urlAtCall |-> "none", iframeAtCall |-> FALSE, lookup |-> "none"]

\* The element handles getSelectedBlockElementHandle can return.
Handles == {"handle1", "handle2"}

(***************************************************************************)
(* InlineHelpSearchCard: the key events of the search field.               *)
(***************************************************************************)
KeyNames == {"ArrowUp", "ArrowDown", "Enter", "Escape", "Tab", "a"}

\* A key event: event.key, event.getModifierState( 'Shift' ) and whether
\* preventDefault() has been called on it.
KeyEvent(k, sh) == [key |-> k, shift |-> sh, defaultPrevented |-> FALSE]

\* A call of one of the component's props.
Handler(h, a) == [handler |-> h, arg |-> a]
NoHandler == Handler("none", "none")

\* What props.selectedResult can be.
Results == {"undefined", "result1", "result2"}

\* event.preventDefault()
PreventDefault(e) == [e EXCEPT !.defaultPrevented = TRUE]

\* Mutant: the Shift key is not looked at.
OnKeyDown_IgnoresShift(e, index, selected) ==
    IF e.key \in {"ArrowUp", "ArrowDown", "Enter"}
    THEN << PreventDefault(e),
            CASE e.key = "ArrowUp" -> Handler("selectPreviousResult", "none")
              [] e.key = "ArrowDown" -> Handler("selectNextResult", "none")
              [] e.key = "Enter" ->
                   IF index >= 0 THEN Handler("openResult", selected)
                   ELSE NoHandler >>
    ELSE << e, NoHandler >>

\* onKeyDown( event ): the event as it leaves the handler and the prop the
\* handler called.
OnKeyDown(e, index, selected) ==
    IF e.shift THEN << e, NoHandler >>
    ELSE IF e.key \in {"ArrowUp", "ArrowDown", "Enter"}
    THEN << PreventDefault(e),
            CASE e.key = "ArrowUp" -> Handler("selectPreviousResult", "none")
              [] e.key = "ArrowDown" -> Handler("selectNextResult", "none")
              [] e.key = "Enter" ->
                   IF index >= 0 THEN Handler("openResult", selected)
                   ELSE NoHandler >>
    ELSE << e, NoHandler >>

(***************************************************************************)
(* buildHooks: the hooks around the browser of a test run.                 *)
(***************************************************************************)
\* What a hook did: the function of ./browser or ./browser-logs it called,
\* "none" when it called none, the driver it passed, whether that driver
\* had been closed before, and the driver of the createBrowser that had
\* completed last.
HookCall(hook, fn, d, c, latest) ==
    [hook |-> hook, fn |-> fn, driver |-> d, closedBefore |-> c, latest |-> latest]
NoCall == HookCall("none", "none", 0, FALSE, 0)

\* if ( driver ) return fn( { driver } );
Guarded(hook, d, c, latest) ==
    IF d # 0 THEN HookCall(hook, hook, d, d \in c, latest)
    ELSE HookCall(hook, "none", 0, FALSE, latest)

(***************************************************************************)
(* BlockFramePreview: the preview's scale and its listeners.               *)
(***************************************************************************)
\* What props.viewportWidth can be; 0 stands for a width that is not given.
Widths == 0 .. MaxWidth

\* useState( { transform: `scale( 1 )` } ): no width and no height yet (0),
\* the scale a fraction.
InitialStyle == [width |-> 0, height |-> << 0, 0 >>, scale |-> << 1, 1 >>]

\* Mutant: rescale does not look at the iframe's parent node.
Rescale_WithoutParentNode(w, ref, pw, st) ==
    [width |-> IF w # 0 THEN w ELSE -1, height |-> << w, pw >>, scale |-> << pw, w >>]

\* rescale() of the render with viewportWidth w: the style it leaves.  The
\* scale is the fraction parentNode.offsetWidth / viewportWidth, the height
\* parentNode.offsetHeight times the fraction viewportWidth /
\* parentNode.offsetWidth; -1 is the iframe's own offsetWidth.
Rescale(w, ref, pw, st) ==
    IF ~ref THEN st
    ELSE [width |-> IF w # 0 THEN w ELSE -1, height |-> << w, pw >>, scale |-> << pw, w >>]

\* window.removeEventListener( 'resize', refreshPreview ) and
\* jQuery( document ).off( 'wp-collapse-menu', rescale ): the listener the
\* effect added last is taken off.
WithoutListener(listeners) ==
    IF listeners = << >> THEN << >> ELSE SubSeq(listeners, 1, Len(listeners) - 1)

\* The debounced calls that stay pending when the resize listeners are removed.
Orphaned(listeners) ==
    IF listeners # << >> /\ listeners[Len(listeners)].armed
    THEN Append(orphans, listeners[Len(listeners)].width)
    ELSE orphans

(***************************************************************************)
(* The state after construction: no call in progress.  The browser shows   *)
(* the Calypso editor with the Gutenframe still loading or loaded, or the  *)
(* plain WPAdmin editor.                                                   *)
(***************************************************************************)
Init ==
    /\ viewport \in Viewports
    /\ requiresGutenframe \in BOOLEAN
    /\ frameLocator = editorFrame
    /\ \/ url = "calypso" /\ iframeLoaded \in BOOLEAN
       \/ url = "wp-admin" /\ iframeLoaded = FALSE
    /\ open = {}
    /\ shown = FALSE
    /\ prev = NoPrev
    /\ call = "idle"
    /\ pc = "idle"
    /\ cur = NoEntry
    /\ todo = << >>
    /\ visit = FALSE
    /\ tabs = {}
    /\ log = << >>
    /\ result = NoResult
    /\ gef = NoGef
    /\ frame = NoFrames
    /\ tasks = NoTasks
    /\ race = NoResult
    /\ blockHandle = "none"
    /\ failed = NoEntry
    /\ text = << >>
    /\ readBack = Unread
    /\ selectedResultIndex = -1
    /\ selectedResult = "undefined"
    /\ event = KeyEvent("none", FALSE)
    /\ called = NoHandler
    /\ driver = 0
    /\ started = 0
    /\ creating = {}
    /\ closed = {}
    /\ completed = 0
    /\ lastCall = NoCall
    /\ mounted = "no"
    /\ viewportWidth = 0
    /\ iframeRef = FALSE
    /\ jQuery = FALSE
    /\ parentWidth = 1
    /\ style = InitialStyle
    /\ resizeListeners = << >>
    /\ collapseListeners = << >>
    /\ orphans = << >>
    /\ lateRescales = 0

config == << viewport, requiresGutenframe, frameLocator >>
browser == << url, iframeLoaded, open, shown >>
strings == << text, readBack >>

(***************************************************************************)
(* The browser.  The Gutenframe gets its is-loaded class when it has       *)
(* loaded; CalypsoifyIframe redirects to the plain WPAdmin page on an      *)
(* error or when the iframe takes too long.                                *)
(***************************************************************************)
IframeLoads ==
    /\ url = "calypso"
    /\ ~iframeLoaded
    /\ iframeLoaded' = TRUE
    /\ UNCHANGED << config, components, url, open, shown, prev, call, pc, cur, todo, visit, tabs, log, result,
                    gef, frame, tasks, race, blockHandle, failed,
                    strings >>

RedirectToWpAdmin ==
    /\ url = "calypso"
    /\ url' = "wp-admin"
    /\ iframeLoaded' = FALSE
    /\ open' = {}
    /\ UNCHANGED << config, components, shown, prev, call, pc, cur, todo, visit, tabs, log, result,
                    gef, frame, tasks, race, blockHandle, failed,
                    strings >>

(***************************************************************************)
(* getEditorFrame.                                                         *)
(***************************************************************************)
\* Mutant: the WPAdmin shortcut is taken whatever requiresGutenframe says.
GefSkipsLookup_IgnoresStrict(req, u) == u = "wp-admin"

\* if ( ! this.requiresGutenframe ) { if ( this.page.url().includes( '/wp-admin' ) )
GefSkipsLookup(req, u) == ~req /\ u = "wp-admin"

\* Mutant: the lookup is issued on every call.
GefBegin_AlwaysLooks(req, u) ==
    [status |-> "lookup", by |-> "none", ret |-> "none", looked |-> TRUE,
     notice |-> FALSE, urlAtCall |-> u, iframeAtCall |-> FALSE,
     lookup |-> "pending"]

\* The synchronous part: return the top frame, or issue the lookup
\* locator.elementHandle( { timeout: 105 * 1000 } ) and wait for it.
GefBegin(req, u) ==
    IF GefSkipsLookup(req, u)
    THEN [status |-> "done", by |-> "none", ret |-> "mainFrame", looked |-> FALSE,
          notice |-> FALSE, urlAtCall |-> u, iframeAtCall |-> FALSE,
          lookup |-> "none"]
    ELSE [status |-> "lookup", by |-> "none", ret |-> "none", looked |-> TRUE,
          notice |-> FALSE, urlAtCall |-> u, iframeAtCall |-> FALSE,
          lookup |-> "pending"]

\* Mutant: a call that repeats a getEditorFrame call gives the top frame.
GefFound_TopFrameOnRepeat(g) ==
    [g EXCEPT !.status = "done",
              !.ret = IF prev.call = "getEditorFrame" THEN "mainFrame"
                      ELSE "contentFrame",
              !.lookup = "found"]

\* try: the element handle was obtained and contentFrame() gave its frame.
GefFound(g) ==
    [g EXCEPT !.status = "done", !.ret = "contentFrame", !.lookup = "found"]

\* Mutant: the catch block throws whatever requiresGutenframe says.
GefCatch_AlwaysThrows(g, req, why) ==
    [g EXCEPT !.status = "done", !.ret = "Could not locate editor iframe",
              !.lookup = why]

\* catch: elementHandle timed out ("timeout") or contentFrame threw ("detached").
GefCatch(g, req, why) ==
    IF req
    THEN [g EXCEPT !.status = "done", !.ret = "Could not locate editor iframe",
                   !.lookup = why]
    ELSE [g EXCEPT !.status = "done", !.ret = "mainFrame", !.notice = TRUE,
                   !.lookup = why]

GefFailed(g) == g.ret = "Could not locate editor iframe"

GefResult(g) == IF GefFailed(g) THEN Err(g.ret) ELSE Ok(g.ret)

(***************************************************************************)
(* The part of the state a call works on, as one record, so that the code  *)
(* between two awaits is a function from record to record.                 *)
(***************************************************************************)
Local == [pc |-> pc, cur |-> cur, todo |-> todo, log |-> log, result |-> result,
          gef |-> gef, frame |-> frame, tasks |-> tasks, race |-> race,
          blockHandle |-> blockHandle, failed |-> failed]

Set(L) ==
    /\ pc' = L.pc
    /\ cur' = L.cur
    /\ todo' = L.todo
    /\ log' = L.log
    /\ result' = L.result
    /\ gef' = L.gef
    /\ frame' = L.frame
    /\ tasks' = L.tasks
    /\ race' = L.race
    /\ blockHandle' = L.blockHandle
    /\ failed' = L.failed

Fresh == [pc |-> "idle", cur |-> NoEntry, todo |-> << >>, log |-> << >>,
          result |-> Pending, gef |-> NoGef, frame |-> NoFrames,
          tasks |-> NoTasks, race |-> NoResult, blockHandle |-> "none",
          failed |-> NoEntry]

\* Issue the first of `steps` and await it; the rest follow one by one.
Issue(L, phase, steps) ==
    [L EXCEPT !.pc = phase, !.cur = Head(steps), !.todo = Tail(steps),
              !.log = Append(L.log, Head(steps))]

\* The call returns v to its caller.
Return(L, v) == [L EXCEPT !.pc = "done", !.cur = NoEntry, !.todo = << >>,
                          !.result = Ok(v)]

\* The call throws e to its caller.
Throw(L, e) == [L EXCEPT !.pc = "done", !.cur = NoEntry, !.todo = << >>,
                         !.result = Err(e)]

(***************************************************************************)
(* The promise combinators.                                                *)
(***************************************************************************)
\* Mutant: the race waits for a member to fulfil and takes no rejection.
PromiseRace_FulfilmentOnly(current, r) ==
    IF current.status = "pending" /\ r.status = "ok" THEN r ELSE current

\* Promise.race: the promise it returns settles as its first member to settle
\* does, fulfilled or rejected; later settlements change nothing.
PromiseRace(current, r) == IF current.status = "pending" THEN r ELSE current

\* Mutant: the exit action is started but not awaited.
PromiseAll_NavigationOnly(nav, action) ==
    IF nav.status = "error" THEN "rejected"
    ELSE IF nav.status = "ok" THEN "fulfilled"
    ELSE "pending"

\* Promise.all of the navigation race and the exit action: rejected as soon
\* as one of the two is, fulfilled once both are.
PromiseAll(nav, action) ==
    IF nav.status = "error" \/ action = "fail" THEN "rejected"
    ELSE IF nav.status = "ok" /\ action = "ok" THEN "fulfilled"
    ELSE "pending"

\* Mutant: the join rejects when a member does, as Promise.all.
PromiseAllSettled_RejectsOnFailure(members) ==
    IF "fail" \in members THEN "rejected"
    ELSE IF "pending" \in members THEN "pending"
    ELSE "fulfilled"

\* Promise.allSettled: fulfilled once every member has settled, whichever
\* way; never rejected.
PromiseAllSettled(members) ==
    IF "pending" \in members THEN "pending" ELSE "fulfilled"

URLRace == {"getPublishedURL", "getPublishedURLFromToast"}
TabRace == {"clickTab(Page)", "clickTab(Post)"}
NavRace == {"waitForNavigation(home)", "waitForNavigation(posts)",
            "waitForNavigation(pages)"}
RaceMembers == URLRace \cup TabRace \cup NavRace
CloseTasks == {"closePanel", "closeSidebar", "closeSettings"}

TabWorkflows == {"setArticleVisibility", "viewRevisions", "selectCategory",
                 "addTag", "setURLSlug", "schedule"}

Sidebar(op) == Entry(op, "editorSettingsSidebarComponent")

\* Mutant: the value is applied before the section is expanded.
StepsAfterTab_ValueFirst(c) ==
    CASE c = "setArticleVisibility" ->
            << Sidebar("openVisibilityOptions"), Sidebar("selectVisibility"),
               Sidebar("expandSection(Status & Visibility)"),
               Sidebar("closeVisibilityOptions") >>
      [] c = "viewRevisions" -> << Sidebar("showRevisions") >>
      [] c = "selectCategory" ->
            << Sidebar("checkCategory"), Sidebar("expandSection(Categories)") >>
      [] c = "addTag" ->
            << Sidebar("enterTag"), Sidebar("expandSection(Tags)") >>
      [] c = "setURLSlug" ->
            << Sidebar("enterUrlSlug"), Sidebar("expandSection(Permalink)") >>
      [] c = "schedule" ->
            << Sidebar("openSchedule"), Sidebar("setScheduleDetails"),
               Sidebar("expandSection(Status & Visibility)"),
               Sidebar("closeSchedule") >>

\* What each settings workflow awaits, in order, after the tab race.
StepsAfterTab(c) ==
    CASE c = "setArticleVisibility" ->
            << Sidebar("expandSection(Status & Visibility)"),
               Sidebar("openVisibilityOptions"), Sidebar("selectVisibility"),
               Sidebar("closeVisibilityOptions") >>
      [] c = "viewRevisions" -> << Sidebar("showRevisions") >>
      [] c = "selectCategory" ->
            << Sidebar("expandSection(Categories)"), Sidebar("checkCategory") >>
      [] c = "addTag" ->
            << Sidebar("expandSection(Tags)"), Sidebar("enterTag") >>
      [] c = "setURLSlug" ->
            << Sidebar("expandSection(Permalink)"), Sidebar("enterUrlSlug") >>
      [] c = "schedule" ->
            << Sidebar("expandSection(Status & Visibility)"),
               Sidebar("openSchedule"), Sidebar("setScheduleDetails"),
               Sidebar("closeSchedule") >>

\* confirmPostShown: page.waitForSelector( '.entry-content', { timeout } )
ConfirmPostShown == Entry("waitForSelector(.entry-content)", "page")

\* The page.reload() of reloadAndRetry.
Reload == Entry("reload", "page")

\* visitPublishedPost: the dialog listener is registered, then goto is awaited.
VisitPublishedPost(L) ==
    Issue([L EXCEPT !.log = Append(L.log, Entry("once(dialog)", "page"))],
          "visitPublishedPost:goto", << Entry("goto(publishedURL)", "page") >>)

\* reloadAndRetry( this.page, confirmPostShown ): the function is tried.
ReloadAndRetry(L) == Issue(L, "visitPublishedPost:confirm", << ConfirmPostShown >>)

\* How often confirmPostShown has been tried.
Attempts(L) == Cardinality({i \in DOMAIN L.log : L.log[i] = ConfirmPostShown})

\* reloadAndRetry, when the function has thrown: the page is reloaded for
\* another try while the budget lasts, and the error is thrown when it is spent.
ConfirmFailed(L) ==
    IF Attempts(L) < RetryBudget
    THEN Issue(L, "visitPublishedPost:reload", << Reload >>)
    ELSE Throw(L, L.cur.op)

\* Mutant: the rejection is dropped and the call goes on with its next step.
StepFailed_GoesOn(L) ==
    IF L.todo # << >> THEN Issue([L EXCEPT !.failed = L.cur], L.pc, L.todo)
    ELSE Throw([L EXCEPT !.failed = L.cur], L.cur.op)

\* The awaited primitive has failed: the await throws its error, which no
\* workflow catches; reloadAndRetry alone catches that of its function.
StepFailed(L) ==
    IF L.pc = "visitPublishedPost:confirm"
    THEN ConfirmFailed([L EXCEPT !.failed = L.cur])
    ELSE Throw([L EXCEPT !.failed = L.cur], L.cur.op)

\* Mutant: the URL is returned without visiting it.
PublishAfterRace_NeverVisits(L) ==
    IF L.race.status = "ok" THEN Return(L, L.race.value)
    ELSE Throw(L, L.race.value)

\* publish, from the settling of the URL race on.
PublishAfterRace(L) ==
    IF L.race.status = "ok"
    THEN IF visit THEN VisitPublishedPost(L) ELSE Return(L, L.race.value)
    ELSE Throw(L, L.race.value)

\* A settings workflow, from the settling of the tab race on.
TabAfterRace(L) ==
    IF L.race.status = "ok"
    THEN Issue(L, "settings", StepsAfterTab(call))
    ELSE Throw(L, L.race.value)

\* exitEditor: await Promise.all( actions ).
ExitJoin(L) ==
    LET all == PromiseAll(L.race, L.tasks["exitAction"]) IN
    IF L.result.status # "pending" THEN L
    ELSE IF all = "fulfilled" THEN Return(L, "void")
    ELSE IF all = "rejected"
         THEN Throw(L, IF L.race.status = "error" THEN L.race.value
                       ELSE "exitAction failed")
    ELSE L

\* closeAllPanels: await Promise.allSettled( [ ... ] ).
CloseJoin(L) ==
    LET all == PromiseAllSettled({L.tasks[t] : t \in CloseTasks}) IN
    IF L.result.status # "pending" THEN L
    ELSE IF all = "fulfilled" THEN Return(L, "void")
    ELSE IF all = "rejected" THEN Throw(L, "closeAllPanels failed")
    ELSE L

AfterRace(L) ==
    CASE call = "publish" -> PublishAfterRace(L)
      [] call \in TabWorkflows -> TabAfterRace(L)
      [] call = "exitEditor" -> ExitJoin(L)

\* The promise of task t settles with r, and the code awaiting it runs.
SettleTask(L, t, r) ==
    LET L1 == [L EXCEPT !.tasks[t] = IF r.status = "ok" THEN "ok" ELSE "fail"]
        L2 == [L1 EXCEPT !.race = PromiseRace(L1.race, r)]
    IN  IF t \in RaceMembers
        THEN IF L1.race.status = "pending" /\ L2.race.status # "pending"
             THEN AfterRace(L2) ELSE L2
        ELSE IF t \in CloseTasks THEN CloseJoin(L1)
        ELSE ExitJoin(L1)

(***************************************************************************)
(* The callers of getEditorFrame, from `await this.getEditorFrame()` on.   *)
(***************************************************************************)
\* waitUntilLoaded: the title is awaited through this.frameLocator.
WaitForTitle(L) ==
    Issue([L EXCEPT !.frame["waitUntilLoaded"] = L.gef.ret],
          "waitUntilLoaded",
          << Entry("waitFor(editorTitle)", frameLocator) >>)

\* The dispatch in the predicate of the second waitForFunction.
Dispatch(f) == Entry("dispatch(setShowWelcomeGuide( false ))", f)

\* waitForFunction has evaluated its predicate once more: when the predicate
\* is the dismissal of the tour, the action has been dispatched.
Evaluated(L) ==
    IF L.cur.op = "waitForFunction(setShowWelcomeGuide)"
    THEN [L EXCEPT !.log = Append(L.log, Dispatch(L.cur.on))]
    ELSE L

\* How often the dismissal has been dispatched.
Dispatches(L) ==
    Cardinality({i \in DOMAIN L.log :
                    L.log[i].op = "dispatch(setShowWelcomeGuide( false ))"})

\* forceDismissWelcomeTour: the two waitForFunction calls on the frame.
DismissTour(L) ==
    Issue([L EXCEPT !.frame["forceDismissWelcomeTour"] = L.gef.ret],
          "forceDismissWelcomeTour",
          << Entry("waitForFunction(isWelcomeGuideStatusLoaded)", L.gef.ret),
             Entry("waitForFunction(setShowWelcomeGuide)", L.gef.ret) >>)

\* getPublishedURLFromToast: the href of the toast link is read on the frame.
ReadToast(L) ==
    [L EXCEPT !.frame["getPublishedURLFromToast"] = L.gef.ret,
              !.log = Append(L.log, Entry("getAttribute(href)", L.gef.ret))]

\* Mutant: the notice is not waited for.
UnpublishSteps_NoNotice(f) == << Entry("click(dialog OK)", f) >>

\* unpublish: the dialog is confirmed and the notice awaited, on the frame.
UnpublishSteps(f) ==
    << Entry("click(dialog OK)", f),
       Entry("waitForSelector(Post reverted to draft.)", f) >>

ConfirmDraft(L) ==
    Issue([L EXCEPT !.frame["unpublish"] = L.gef.ret], "unpublish",
          UnpublishSteps(L.gef.ret))

\* The code that awaited getEditorFrame runs with what it returned or threw.
Resume(L) ==
    LET by == L.gef.by IN
    CASE by = "getEditorFrame" ->
            IF GefFailed(L.gef) THEN Throw(L, L.gef.ret) ELSE Return(L, L.gef.ret)
      [] by = "waitUntilLoaded" ->
            IF GefFailed(L.gef) THEN Throw(L, L.gef.ret) ELSE WaitForTitle(L)
      [] by = "forceDismissWelcomeTour" ->
            IF GefFailed(L.gef) THEN Throw(L, L.gef.ret) ELSE DismissTour(L)
      [] by = "unpublish" ->
            IF GefFailed(L.gef) THEN Throw(L, L.gef.ret) ELSE ConfirmDraft(L)
      [] by = "getPublishedURLFromToast" ->
            IF GefFailed(L.gef)
            THEN SettleTask(L, "getPublishedURLFromToast", Err(L.gef.ret))
            ELSE ReadToast(L)

\* `await this.getEditorFrame()` in function `by`, the page being at url u.
AwaitEditorFrame(L, by, u) ==
    LET g == [GefBegin(requiresGutenframe, u) EXCEPT !.by = by,
                                                     !.iframeAtCall = iframeLoaded]
        L1 == [L EXCEPT !.gef = g,
                        !.pc = IF by = "getPublishedURLFromToast" THEN L.pc
                               ELSE "getEditorFrame",
                        !.log = IF g.looked
                                THEN Append(L.log, Entry("elementHandle(editorFrame)", "page"))
                                ELSE L.log]
    IN  IF g.status = "done" THEN Resume(L1) ELSE L1

Toolbar(op) == Entry(op, "editorToolbarComponent")
PublishPanel(op) == Entry(op, "editorPublishPanelComponent")
NavSidebar(op) == Entry(op, "editorNavSidebarComponent")

\* publish: the two sources of the published URL are started and raced.
StartURLRace(L, u) ==
    AwaitEditorFrame(
        [L EXCEPT !.pc = "publish:race", !.cur = NoEntry,
                  !.log = Append(L.log, PublishPanel("getPublishedURL")),
                  !.tasks = [t \in TaskNames |->
                                IF t \in URLRace THEN "pending" ELSE L.tasks[t]],
                  !.race = Pending],
        "getPublishedURLFromToast", u)

\* Mutant: the second stage is invoked whatever panelIsOpen() reports.
AfterPanelIsOpen_AlwaysSecondStage(L, isOpen, u) ==
    Issue(L, "publish:publish", << PublishPanel("publish") >>)

\* if ( await this.editorPublishPanelComponent.panelIsOpen() ) { publish() }
\* and then the race, the page being at url u.
AfterPanelIsOpen(L, isOpen, u) ==
    IF isOpen THEN Issue(L, "publish:publish", << PublishPanel("publish") >>)
    ELSE StartURLRace(L, u)

\* Mutant: the navigation sidebar's exit is used in every viewport.
ExitAction_SidebarAlways(v) == NavSidebar("exitEditor")

\* The exit action of exitEditor, by viewport.
ExitAction(v) ==
    IF v = "mobile" THEN Entry("clickMySites", "navbarComponent")
    ELSE NavSidebar("exitEditor")

\* exitEditor: the three navigation waits are registered and raced, the exit
\* action is started, and all of it is awaited.
StartExit(L, v) ==
    [L EXCEPT !.pc = "exitEditor:all", !.cur = NoEntry,
              !.log = L.log \o << Entry("waitForNavigation(home)", "page"),
                                  Entry("waitForNavigation(posts)", "page"),
                                  Entry("waitForNavigation(pages)", "page"),
                                  ExitAction(v) >>,
              !.tasks = [t \in TaskNames |->
                            IF t \in NavRace \cup {"exitAction"} THEN "pending"
                            ELSE L.tasks[t]],
              !.race = Pending]

\* The value a call returns when its last step has succeeded.
ReturnValue(L) ==
    CASE call = "waitUntilLoaded" -> L.frame["waitUntilLoaded"]
      [] call = "visit" -> "response"
      [] call = "publish" -> L.race.value
      [] call = "previewAsMobile" -> "popup"
      [] call = "addBlock" -> L.blockHandle
      [] OTHER -> "void"

\* The awaited step has succeeded and no step of the same run is left; the
\* page is at url u.
AfterSteps(L, u) ==
    CASE L.pc = "waitUntilLoaded" ->
            AwaitEditorFrame([L EXCEPT !.cur = NoEntry], "forceDismissWelcomeTour", u)
      [] L.pc = "visit" ->
            AwaitEditorFrame([L EXCEPT !.cur = NoEntry], "waitUntilLoaded", u)
      [] L.pc = "publish:clickPublish" ->
            Issue(L, "publish:panelIsOpen", << PublishPanel("panelIsOpen") >>)
      [] L.pc = "publish:publish" -> StartURLRace(L, u)
      [] L.pc = "unpublish:switchToDraft" ->
            AwaitEditorFrame([L EXCEPT !.cur = NoEntry], "unpublish", u)
      [] L.pc = "visitPublishedPost:goto" -> ReloadAndRetry(L)
      [] L.pc = "visitPublishedPost:reload" -> ReloadAndRetry(L)
      [] L.pc = "exitEditor:openSidebar" -> StartExit(L, viewport)
      [] OTHER -> Return(L, ReturnValue(L))

\* The awaited step has succeeded.
StepDone(L, u) ==
    IF L.todo # << >> THEN Issue(L, L.pc, L.todo) ELSE AfterSteps(L, u)

(***************************************************************************)
(* The calls a test makes on the page object, one at a time.               *)
(***************************************************************************)
Begin(c, L) ==
    /\ call = "idle"
    /\ call' = c
    /\ Set(L)
    /\ prev' = IF prev.call = c THEN prev ELSE NoPrev
    /\ UNCHANGED << config, components, browser, strings >>

\* getEditorFrame()
GetEditorFrame ==
    /\ Begin("getEditorFrame", AwaitEditorFrame(Fresh, "getEditorFrame", url))
    /\ UNCHANGED << visit, tabs >>

\* waitUntilLoaded()
WaitUntilLoaded ==
    /\ Begin("waitUntilLoaded", AwaitEditorFrame(Fresh, "waitUntilLoaded", url))
    /\ UNCHANGED << visit, tabs >>

\* forceDismissWelcomeTour()
ForceDismissWelcomeTour ==
    /\ Begin("forceDismissWelcomeTour",
             AwaitEditorFrame(Fresh, "forceDismissWelcomeTour", url))
    /\ UNCHANGED << visit, tabs >>

\* visit( type )
Visit ==
    /\ Begin("visit", Issue(Fresh, "visit", << Entry("goto(calypsoURL)", "page") >>))
    /\ UNCHANGED << visit, tabs >>

\* publish( { visit } )
Publish ==
    /\ Begin("publish",
             Issue(Fresh, "publish:clickPublish", << Toolbar("clickPublish") >>))
    /\ visit' \in BOOLEAN
    /\ UNCHANGED tabs

\* unpublish()
Unpublish ==
    /\ Begin("unpublish",
             Issue(Fresh, "unpublish:switchToDraft", << Toolbar("switchToDraft") >>))
    /\ UNCHANGED << visit, tabs >>

\* The tab race of the settings workflows: both clicks are started.
StartTabRace(L) ==
    [L EXCEPT !.pc = "tabRace",
              !.log = << Sidebar("clickTab(Page)"), Sidebar("clickTab(Post)") >>,
              !.tasks = [t \in TaskNames |->
                            IF t \in TabRace THEN "pending" ELSE L.tasks[t]],
              !.race = Pending]

\* setArticleVisibility, viewRevisions, selectCategory, addTag, setURLSlug and
\* schedule, on a sidebar that shows the tabs in ts.
SettingsWorkflow ==
    \E c \in TabWorkflows, ts \in SUBSET {"Page", "Post"} :
        /\ Begin(c, StartTabRace(Fresh))
        /\ tabs' = ts
        /\ UNCHANGED visit

\* exitEditor()
ExitEditor ==
    /\ Begin("exitEditor",
             Issue(Fresh, "exitEditor:openSidebar", << NavSidebar("openSidebar") >>))
    /\ UNCHANGED << visit, tabs >>

Gutenberg(op) == Entry(op, "editorGutenbergComponent")

\* Mutant: the search is typed before the block inserter is opened.
AddBlockSteps_SearchFirst ==
    << Gutenberg("resetSelectedBlock"), Gutenberg("searchBlockInserter"),
       Toolbar("openBlockInserter"), Gutenberg("selectBlockInserterResult"),
       Gutenberg("getSelectedBlockElementHandle") >>

\* What addBlock awaits, in order, up to the handle of the block.
AddBlockSteps ==
    << Gutenberg("resetSelectedBlock"), Toolbar("openBlockInserter"),
       Gutenberg("searchBlockInserter"), Gutenberg("selectBlockInserterResult"),
       Gutenberg("getSelectedBlockElementHandle") >>

\* addBlock( blockName, blockEditorSelector )
AddBlock ==
    /\ Begin("addBlock", Issue(Fresh, "addBlock", AddBlockSteps))
    /\ UNCHANGED << visit, tabs >>

\* Mutant: the block inserter is closed in every viewport.
ClosesInserter_Always(v) == TRUE

\* if ( envVariables.VIEWPORT_NAME !== 'mobile' )
ClosesInserter(v) == v # "mobile"

\* addBlock, from the return of getSelectedBlockElementHandle on.
AfterHandle(L, v) ==
    IF ClosesInserter(v)
    THEN Issue(L, "addBlock:close", << Toolbar("closeBlockInserter") >>)
    ELSE Return(L, L.blockHandle)

\* if ( envVariables.VIEWPORT_NAME !== 'mobile' ) throw
MobilePreviewAllowed(v) == v = "mobile"

\* Mutant: the desktop preview is refused on tablet as well.
DesktopPreviewAllowed_DesktopOnly(v) == v = "desktop"

\* if ( envVariables.VIEWPORT_NAME === 'mobile' ) throw
DesktopPreviewAllowed(v) == v # "mobile"

\* previewAsMobile()
PreviewAsMobile ==
    /\ Begin("previewAsMobile",
             IF MobilePreviewAllowed(viewport)
             THEN Issue(Fresh, "previewAsMobile", << Toolbar("openMobilePreview") >>)
             ELSE Throw(Fresh, "This method only works in mobile viewport"))
    /\ UNCHANGED << visit, tabs >>

\* previewAsDesktop( target )
PreviewAsDesktop ==
    /\ Begin("previewAsDesktop",
             IF DesktopPreviewAllowed(viewport)
             THEN Issue(Fresh, "previewAsDesktop", << Toolbar("openDesktopPreview") >>)
             ELSE Throw(Fresh, "This method only works in non-mobile viewport"))
    /\ UNCHANGED << visit, tabs >>

\* closeAllPanels(): the three closes are started and all of them awaited.
CloseAllPanels ==
    /\ Begin("closeAllPanels",
             [Fresh EXCEPT !.pc = "closeAllPanels",
                           !.log = << PublishPanel("closePanel"),
                                      NavSidebar("closeSidebar"),
                                      Toolbar("closeSettings") >>,
                           !.tasks = [t \in TaskNames |->
                                         IF t \in CloseTasks THEN "pending"
                                         ELSE "none"]])
    /\ UNCHANGED << visit, tabs >>

\* openSettings()
OpenSettings ==
    /\ Begin("openSettings", Issue(Fresh, "openSettings", << Toolbar("openSettings") >>))
    /\ UNCHANGED << visit, tabs >>

\* The close of the settings sidebar, by viewport.
CloseSettingsAction(v) ==
    IF v = "mobile" THEN Sidebar("closeSidebarForMobile") ELSE Toolbar("closeSettings")

\* closeSettings()
CloseSettings ==
    /\ Begin("closeSettings",
             Issue(Fresh, "closeSettings", << CloseSettingsAction(viewport) >>))
    /\ UNCHANGED << visit, tabs >>

\* closePreview(): nothing on mobile, the Desktop preview size otherwise.
ClosePreview ==
    /\ Begin("closePreview",
             IF viewport = "mobile" THEN Return(Fresh, "void")
             ELSE Issue(Fresh, "closePreview",
                        << Toolbar("openDesktopPreview(Desktop)") >>))
    /\ UNCHANGED << visit, tabs >>

\* The call has returned or thrown; the test goes on to its next call.
CallReturns ==
    /\ pc = "done"
    /\ call' = "idle"
    /\ Set([Fresh EXCEPT !.result = NoResult])
    /\ visit' = FALSE
    /\ tabs' = {}
    /\ text' = << >>
    /\ readBack' = Unread
    /\ prev' = IF call \in Remembered
               THEN [call |-> call, status |-> result.status,
                     value |-> result.value, urlAtCall |-> gef.urlAtCall,
                     iframeAtCall |-> gef.iframeAtCall, lookup |-> gef.lookup]
               ELSE NoPrev
    /\ UNCHANGED << config, components, browser >>

(***************************************************************************)
(* enterTitle and enterText.                                               *)
(***************************************************************************)
RECURSIVE TrimStart(_)
TrimStart(s) ==
    IF s = << >> \/ Head(s) \notin WhiteSpace THEN s ELSE TrimStart(Tail(s))

RECURSIVE TrimEnd(_)
TrimEnd(s) ==
    IF s = << >> \/ s[Len(s)] \notin WhiteSpace THEN s
    ELSE TrimEnd(SubSeq(s, 1, Len(s) - 1))

\* Mutant: only the leading whitespace is stripped.
Trim_StartOnly(s) == TrimStart(s)

\* title.trim()
Trim(s) == TrimEnd(TrimStart(s))

\* enterTitle, from the return of getTitle() on: the comparison and the throw.
TitleVerdict(L, title, enteredTitle) ==
    IF enteredTitle # Trim(title)
    THEN Throw(L, << "Failed to verify title: got", enteredTitle,
                     "expected", Trim(title) >>)
    ELSE Return(L, "void")

\* enterText, from the return of getText() on: the message is built when the
\* texts differ and nothing is done with it.
TextVerdict(L, txt, enteredText) == Return(L, "void")

\* enterTitle( title )
EnterTitle ==
    /\ call = "idle"
    /\ call' = "enterTitle"
    /\ text' \in Strings
    /\ readBack' = Unread
    /\ Set(Issue(Fresh, "enterTitle",
                 << Gutenberg("enterTitle"), Gutenberg("getTitle") >>))
    /\ UNCHANGED << config, components, browser, prev, visit, tabs >>

\* enterText( text )
EnterText ==
    /\ call = "idle"
    /\ call' = "enterText"
    /\ text' \in Strings
    /\ readBack' = Unread
    /\ Set(Issue(Fresh, "enterText",
                 << Gutenberg("enterText"), Gutenberg("getText") >>))
    /\ UNCHANGED << config, components, browser, prev, visit, tabs >>

\* getTitle() returns what the title field holds.
TitleRead ==
    /\ cur = Gutenberg("getTitle")
    /\ \E t \in Strings :
          /\ readBack' = t
          /\ Set(TitleVerdict(Local, text, t))
    /\ UNCHANGED << config, components, browser, prev, call, visit, tabs, text >>

\* getText() returns what the paragraph blocks hold.
TextRead ==
    /\ cur = Gutenberg("getText")
    /\ \E t \in Strings :
          /\ readBack' = t
          /\ Set(TextVerdict(Local, text, t))
    /\ UNCHANGED << config, components, browser, prev, call, visit, tabs, text >>

(***************************************************************************)
(* The browser's answers to what a call awaits.                            *)
(***************************************************************************)
During(L) ==
    /\ call # "idle"
    /\ Set(L)
    /\ UNCHANGED << config, components, prev, call, visit, tabs, strings >>

\* A locator built from this.frameLocator finds its element only inside the
\* Gutenframe.
CanSucceed(e) ==
    /\ e.on = editorFrame => iframeLoaded
    /\ e = ConfirmPostShown => shown

\* The panel a primitive opens or closes.
PanelOf(op) ==
    CASE op \in {"closePanel"} -> "publishPanel"
      [] op \in {"openSidebar", "closeSidebar"} -> "navSidebar"
      [] op \in {"openSettings", "closeSettings", "closeSidebarForMobile"} -> "settings"
      [] op \in {"openDesktopPreview", "openDesktopPreview(Desktop)"} -> "preview"
      [] OTHER -> "none"

ClosesPanel(op) == op \in {"closePanel", "closeSidebar", "closeSettings",
                           "closeSidebarForMobile", "openDesktopPreview(Desktop)"}

OpensPanel(op) == op \in {"openSidebar", "openSettings", "openDesktopPreview"}

\* The panels open once primitive op has succeeded.
OpenAfter(op, o) ==
    IF ClosesPanel(op) THEN o \ {PanelOf(op)}
    ELSE IF OpensPanel(op) THEN o \cup {PanelOf(op)}
    ELSE o

\* Mutant: closing a panel that is already closed may fail.
CanFail_ClosedPanelToo(op, o) == TRUE

\* Closing a panel that is already closed is a no-op and not an error; every
\* other primitive can fail or time out.
CanFail(op, o) == ClosesPanel(op) => PanelOf(op) \in o

\* The wait for the post's content times out only when it is not shown.
CanTimeOut(e) == e = ConfirmPostShown => ~shown

\* A navigation to the published post or a reload of it.
LoadsPost(e) == e.op = "goto(publishedURL)" \/ e = Reload

Navigates(e) == e.op \in {"goto(calypsoURL)", "goto(publishedURL)"}

\* Where the page is once primitive e has succeeded.
UrlAfter(e) ==
    CASE e.op = "goto(calypsoURL)" -> "calypso"
      [] e.op = "goto(publishedURL)" -> "other"
      [] OTHER -> url

\* The primitives whose awaited value the caller branches on.
ValueOps == {"panelIsOpen", "getTitle", "getText",
             "getSelectedBlockElementHandle"}

\* The awaited primitive succeeds.
StepSucceeds ==
    /\ cur # NoEntry
    /\ cur.op \notin ValueOps
    /\ CanSucceed(cur)
    /\ url' = UrlAfter(cur)
    /\ iframeLoaded' = IF Navigates(cur) THEN FALSE ELSE iframeLoaded
    /\ open' = IF Navigates(cur) THEN {} ELSE OpenAfter(cur.op, open)
    /\ IF LoadsPost(cur) THEN shown' \in BOOLEAN
       ELSE shown' = (shown /\ ~Navigates(cur))
    /\ During(StepDone(Evaluated(Local), UrlAfter(cur)))

\* The awaited primitive fails or times out: the call throws its error.
StepFails ==
    /\ cur # NoEntry
    /\ CanFail(cur.op, open)
    /\ CanTimeOut(cur)
    /\ During(StepFailed(Local))
    /\ UNCHANGED browser

\* The predicate of the second waitForFunction has dispatched the dismissal
\* and returned false: waitForFunction evaluates it again.
TourPolledAgain ==
    /\ cur.op = "waitForFunction(setShowWelcomeGuide)"
    /\ Dispatches(Local) < MaxPolls - 1
    /\ During(Evaluated(Local))
    /\ UNCHANGED browser

\* this.page.once( 'dialog', ... ): the one-shot listeners this call has
\* registered on the page and that no dialog has consumed yet.
ActiveListeners ==
    Cardinality({i \in DOMAIN log : log[i] = Entry("once(dialog)", "page")})
    - Cardinality({i \in DOMAIN log : log[i] = Entry("dialog.accept", "page")})

\* The navigation to the published post raises the unsaved-changes dialog:
\* the listener accepts it and, being one-shot, is removed from the page.
DialogRaised ==
    /\ cur = Entry("goto(publishedURL)", "page")
    /\ ActiveListeners > 0
    /\ During([Local EXCEPT !.log = Append(log, Entry("dialog.accept", "page"))])
    /\ UNCHANGED browser

\* if ( await this.editorPublishPanelComponent.panelIsOpen() )
PanelIsOpen ==
    /\ pc = "publish:panelIsOpen"
    /\ During(AfterPanelIsOpen(Local, TRUE, url))
    /\ open' = open \cup {"publishPanel"}
    /\ UNCHANGED << url, iframeLoaded, shown >>

PanelIsClosed ==
    /\ pc = "publish:panelIsOpen"
    /\ During(AfterPanelIsOpen(Local, FALSE, url))
    /\ open' = open \ {"publishPanel"}
    /\ UNCHANGED << url, iframeLoaded, shown >>

\* getSelectedBlockElementHandle resolves with the handle of the block.
BlockHandleObtained ==
    /\ cur = Gutenberg("getSelectedBlockElementHandle")
    /\ \E h \in Handles :
          During(AfterHandle([Local EXCEPT !.blockHandle = h], viewport))
    /\ UNCHANGED browser

\* locator.elementHandle() found the iframe and contentFrame() gave its frame.
EditorFrameFound ==
    /\ gef.status = "lookup"
    /\ iframeLoaded
    /\ During(Resume([Local EXCEPT !.gef = GefFound(gef)]))
    /\ UNCHANGED browser

\* locator.elementHandle() timed out.
EditorFrameTimeout ==
    /\ gef.status = "lookup"
    /\ ~iframeLoaded
    /\ During(Resume([Local EXCEPT !.gef = GefCatch(gef, requiresGutenframe, "timeout")]))
    /\ UNCHANGED browser

\* locator.elementHandle() found the iframe and contentFrame() threw: the
\* iframe has been taken out of the page.
EditorFrameDetached ==
    /\ gef.status = "lookup"
    /\ iframeLoaded
    /\ During(Resume([Local EXCEPT !.gef = GefCatch(gef, requiresGutenframe, "detached")]))
    /\ iframeLoaded' = FALSE
    /\ UNCHANGED << url, open, shown >>

Settles(t, r) ==
    /\ tasks[t] = "pending"
    /\ During(SettleTask(Local, t, r))

\* editorPublishPanelComponent.getPublishedURL() resolves with the URL.
PanelYieldsURL ==
    /\ Settles("getPublishedURL", Ok("urlFromPanel"))
    /\ UNCHANGED browser

PanelURLFails ==
    /\ Settles("getPublishedURL", Err("getPublishedURL failed"))
    /\ UNCHANGED browser

ToastAwaitsHref ==
    /\ gef.by = "getPublishedURLFromToast"
    /\ gef.status = "done"

\* What getAttribute( 'href' ) can give: null when the link has no href, or
\* the text of the attribute.
Hrefs == {"null", "not a URL", "https://site/post"}

\* Mutant: a missing href is taken for a URL.
NewURL_AcceptsNull(href) ==
    IF href = "https://site/post" THEN Ok("urlFromToast")
    ELSE IF href = "null" THEN Ok("null")
    ELSE Err("TypeError: Invalid URL")

\* new URL( publishedURL ): the parsed URL, or a TypeError when the text is
\* not an absolute URL (null is parsed as the text "null").
NewURL(href) ==
    IF href = "https://site/post" THEN Ok("urlFromToast")
    ELSE Err("TypeError: Invalid URL")

\* toastLocator.getAttribute( 'href' ) gives the link and new URL() parses it.
ToastYieldsURL ==
    /\ ToastAwaitsHref
    /\ \E h \in Hrefs :
          /\ NewURL(h).status = "ok"
          /\ Settles("getPublishedURLFromToast", NewURL(h))
    /\ UNCHANGED browser

\* getAttribute times out, or new URL() throws on what it gave.
ToastURLFails ==
    /\ ToastAwaitsHref
    /\ \/ Settles("getPublishedURLFromToast", Err("getAttribute(href) timed out"))
       \/ \E h \in Hrefs :
             /\ NewURL(h).status = "error"
             /\ Settles("getPublishedURLFromToast", NewURL(h))
    /\ UNCHANGED browser

TabOf(t) == IF t = "clickTab(Page)" THEN "Page" ELSE "Post"

\* clickTab clicks a tab the sidebar shows.
TabClicked ==
    /\ \E t \in TabRace :
          /\ TabOf(t) \in tabs
          /\ Settles(t, Ok(t))
    /\ UNCHANGED browser

\* clickTab fails: the tab is not there, or the click timed out.
TabClickFails ==
    /\ \E t \in TabRace : Settles(t, Err(t))
    /\ UNCHANGED browser

\* A navigation matching the pattern of one of the waits completes.
NavigationObserved ==
    /\ \E t \in NavRace : Settles(t, Ok(t))
    /\ url' = "other"
    /\ iframeLoaded' = FALSE
    /\ open' = {}
    /\ shown' = FALSE

\* A waitForNavigation times out.
NavigationTimesOut ==
    /\ \E t \in NavRace : Settles(t, Err(t))
    /\ UNCHANGED browser

\* clickMySites / editorNavSidebarComponent.exitEditor resolves.
ExitActionDone ==
    /\ Settles("exitAction", Ok("exitAction"))
    /\ UNCHANGED browser

ExitActionFails ==
    /\ Settles("exitAction", Err("exitAction failed"))
    /\ UNCHANGED browser

\* A close started by closeAllPanels resolves: its panel is closed.
PanelCloseDone ==
    /\ \E t \in CloseTasks :
          /\ Settles(t, Ok(t))
          /\ open' = open \ {PanelOf(t)}
    /\ UNCHANGED << url, iframeLoaded, shown >>

\* A close started by closeAllPanels fails or times out.
PanelCloseFails ==
    /\ \E t \in CloseTasks :
          /\ CanFail(t, open)
          /\ Settles(t, Err(t))
    /\ UNCHANGED browser

\* Between two calls a panel is found open: an earlier workflow or the
\* editor itself has opened it.
PanelOpens ==
    /\ call = "idle"
    /\ \E p \in Panels \ open : open' = open \cup {p}
    /\ UNCHANGED << config, components, url, iframeLoaded, shown, prev, call, pc, cur, todo, visit,
                    tabs, log, result, gef, frame, tasks, race, blockHandle,
                    failed, strings >>

Next ==
    \/ IframeLoads
    \/ RedirectToWpAdmin
    \/ GetEditorFrame
    \/ WaitUntilLoaded
    \/ ForceDismissWelcomeTour
    \/ Visit
    \/ Publish
    \/ SettingsWorkflow
    \/ Unpublish
    \/ ExitEditor
    \/ PreviewAsMobile
    \/ PreviewAsDesktop
    \/ AddBlock
    \/ CallReturns
    \/ StepSucceeds
    \/ StepFails
    \/ TourPolledAgain
    \/ DialogRaised
    \/ BlockHandleObtained
    \/ PanelIsOpen
    \/ PanelIsClosed
    \/ EditorFrameFound
    \/ EditorFrameTimeout
    \/ EditorFrameDetached
    \/ PanelYieldsURL
    \/ PanelURLFails
    \/ ToastYieldsURL
    \/ ToastURLFails
    \/ TabClicked
    \/ TabClickFails
    \/ NavigationObserved
    \/ NavigationTimesOut
    \/ ExitActionDone
    \/ ExitActionFails

Spec == Init /\ [][Next]_vars

\* The browser's answers: every primitive a call waits for resolves or
\* times out, every waiting the test runner does ends.
Answers ==
    \/ StepSucceeds
    \/ StepFails
    \/ TourPolledAgain
    \/ DialogRaised
    \/ BlockHandleObtained
    \/ PanelIsOpen
    \/ PanelIsClosed
    \/ EditorFrameFound
    \/ EditorFrameTimeout
    \/ EditorFrameDetached
    \/ PanelYieldsURL
    \/ PanelURLFails
    \/ ToastYieldsURL
    \/ ToastURLFails
    \/ TabClicked
    \/ TabClickFails
    \/ NavigationObserved
    \/ NavigationTimesOut
    \/ ExitActionDone
    \/ ExitActionFails

\* The workflows under the timeouts Playwright gives every wait.
SpecLive == Init /\ [][Next]_vars /\ WF_vars(Answers)

\* The title and body workflows alone, on a loaded editor.
InitText ==
    /\ Init
    /\ viewport = "desktop"
    /\ ~requiresGutenframe
    /\ url = "calypso"
    /\ iframeLoaded

NextText ==
    \/ EnterTitle
    \/ EnterText
    \/ StepSucceeds
    \/ StepFails
    \/ TitleRead
    \/ TextRead
    \/ CallReturns

SpecText == InitText /\ [][NextText]_vars

\* The panel workflows alone, on a loaded editor in any viewport.
InitClose ==
    /\ Init
    /\ ~requiresGutenframe
    /\ url = "calypso"
    /\ iframeLoaded

NextClose ==
    \/ CloseAllPanels
    \/ OpenSettings
    \/ CloseSettings
    \/ ClosePreview
    \/ PreviewAsDesktop
    \/ PanelOpens
    \/ StepSucceeds
    \/ StepFails
    \/ PanelCloseDone
    \/ PanelCloseFails
    \/ CallReturns

SpecClose == InitClose /\ [][NextClose]_vars

(***************************************************************************)
(* The inline help search card alone.                                      *)
(***************************************************************************)
\* The user presses a key in the search field.
KeyDown ==
    /\ \E k \in KeyNames, sh \in BOOLEAN :
          LET out == OnKeyDown(KeyEvent(k, sh), selectedResultIndex, selectedResult)
          IN  /\ event' = out[1]
              /\ called' = out[2]
    /\ UNCHANGED << editor, hooks, preview, selectedResultIndex, selectedResult >>

\* The store gives the component another selection.
SelectionChanges ==
    /\ selectedResultIndex' \in -1 .. MaxResults - 1
    /\ selectedResult' \in Results
    /\ UNCHANGED << editor, hooks, preview, event, called >>

NextKeys ==
    \/ KeyDown
    \/ SelectionChanges

SpecKeys == InitText /\ [][NextKeys]_vars

(***************************************************************************)
(* The hooks of buildHooks() alone.                                        *)
(***************************************************************************)
\* hooks.createBrowser( options ) is called: createBrowser( options ) is
\* started and awaited.
CreateBrowserCalled ==
    /\ started < MaxDrivers
    /\ started' = started + 1
    /\ creating' = creating \cup {started + 1}
    /\ UNCHANGED << editor, keys, preview, driver, closed, completed, lastCall >>

\* An awaited createBrowser resolves: driver = await createBrowser( options ).
CreateBrowserResolves ==
    /\ \E d \in creating :
          /\ creating' = creating \ {d}
          /\ driver' = d
          /\ completed' = d
    /\ UNCHANGED << editor, keys, preview, started, closed, lastCall >>

\* An awaited createBrowser rejects: the assignment is not done.
CreateBrowserRejects ==
    /\ \E d \in creating : creating' = creating \ {d}
    /\ UNCHANGED << editor, keys, preview, driver, started, closed, completed, lastCall >>

\* hooks.saveBrowserLogs( options )
SaveBrowserLogs ==
    /\ lastCall' = Guarded("saveBrowserLogs", driver, closed, completed)
    /\ UNCHANGED << editor, keys, preview, driver, started, creating, closed, completed >>

\* hooks.closeBrowser()
CloseBrowser ==
    /\ lastCall' = Guarded("closeBrowser", driver, closed, completed)
    /\ closed' = IF lastCall'.fn = "closeBrowser" THEN closed \cup {lastCall'.driver}
                 ELSE closed
    /\ UNCHANGED << editor, keys, preview, driver, started, creating, completed >>

NextHooks ==
    \/ CreateBrowserCalled
    \/ CreateBrowserResolves
    \/ CreateBrowserRejects
    \/ SaveBrowserLogs
    \/ CloseBrowser

SpecHooks == InitText /\ [][NextHooks]_vars

(***************************************************************************)
(* BlockFramePreview alone.                                                *)
(***************************************************************************)
\* The component is rendered for the first time and its three effects run.
Mount ==
    /\ mounted = "no"
    /\ mounted' = "mounted"
    /\ viewportWidth' \in Widths
    /\ parentWidth' \in 1 .. MaxWidth
    /\ jQuery' \in BOOLEAN
    /\ iframeRef' = TRUE
    /\ style' = Rescale(viewportWidth', TRUE, parentWidth', style)
    /\ resizeListeners' = Append(resizeListeners,
                                 [width |-> viewportWidth', armed |-> FALSE])
    /\ collapseListeners' = IF jQuery' THEN Append(collapseListeners, viewportWidth')
                            ELSE collapseListeners
    /\ UNCHANGED << editor, keys, hooks, orphans, lateRescales >>

\* The component is rendered with another viewportWidth: rescale is a new
\* function, so both listener effects are cleaned up and run again.
ViewportWidthChanges ==
    /\ mounted = "mounted"
    /\ Len(Orphaned(resizeListeners)) <= MaxPending
    /\ \E w \in Widths \ {viewportWidth} : viewportWidth' = w
    /\ orphans' = Orphaned(resizeListeners)
    /\ resizeListeners' = Append(WithoutListener(resizeListeners),
                                 [width |-> viewportWidth', armed |-> FALSE])
    /\ collapseListeners' =
          IF jQuery THEN Append(WithoutListener(collapseListeners), viewportWidth')
          ELSE collapseListeners
    /\ UNCHANGED << editor, keys, hooks, mounted, iframeRef, jQuery, parentWidth,
                    style, lateRescales >>

\* The window is resized: every registered refreshPreview is called and
\* (re)starts its DEBOUNCE_TIMEOUT.
ResizeEvent ==
    /\ mounted # "no"
    /\ parentWidth' \in IF mounted = "mounted" THEN 1 .. MaxWidth ELSE {parentWidth}
    /\ resizeListeners' = [i \in DOMAIN resizeListeners |->
                              [resizeListeners[i] EXCEPT !.armed = TRUE]]
    /\ UNCHANGED << editor, keys, hooks, mounted, viewportWidth, iframeRef, jQuery,
                    style, collapseListeners, orphans, lateRescales >>

\* A DEBOUNCE_TIMEOUT ends: the debounced rescale runs, be its listener
\* still registered or not.
DebounceFires ==
    /\ \/ \E i \in DOMAIN resizeListeners :
             /\ resizeListeners[i].armed
             /\ resizeListeners' = [resizeListeners EXCEPT ![i].armed = FALSE]
             /\ style' = Rescale(resizeListeners[i].width, iframeRef, parentWidth, style)
             /\ UNCHANGED orphans
       \/ \E i \in DOMAIN orphans :
             /\ orphans' = SubSeq(orphans, 1, i - 1) \o SubSeq(orphans, i + 1, Len(orphans))
             /\ style' = Rescale(orphans[i], iframeRef, parentWidth, style)
             /\ UNCHANGED resizeListeners
    /\ lateRescales' = IF mounted = "unmounted" THEN lateRescales + 1 ELSE lateRescales
    /\ UNCHANGED << editor, keys, hooks, mounted, viewportWidth, iframeRef, jQuery,
                    parentWidth, collapseListeners >>

\* wp-admin toggles its sidebar: the registered rescale handlers run.
CollapseMenuEvent ==
    /\ collapseListeners # << >>
    /\ style' = Rescale(collapseListeners[Len(collapseListeners)], iframeRef,
                        parentWidth, style)
    /\ UNCHANGED << editor, keys, hooks, mounted, viewportWidth, iframeRef, jQuery,
                    parentWidth, resizeListeners, collapseListeners, orphans,
                    lateRescales >>

\* The component is unmounted: the ref is detached and the effects are
\* cleaned up.
Unmount ==
    /\ mounted = "mounted"
    /\ mounted' = "unmounted"
    /\ iframeRef' = FALSE
    /\ orphans' = Orphaned(resizeListeners)
    /\ resizeListeners' = WithoutListener(resizeListeners)
    /\ collapseListeners' = IF jQuery THEN WithoutListener(collapseListeners)
                            ELSE collapseListeners
    /\ UNCHANGED << editor, keys, hooks, viewportWidth, jQuery, parentWidth, style,
                    lateRescales >>

NextPreview ==
    \/ Mount
    \/ ViewportWidthChanges
    \/ ResizeEvent
    \/ DebounceFires
    \/ CollapseMenuEvent
    \/ Unmount

SpecPreview == InitText /\ [][NextPreview]_vars

(***************************************************************************)
(* Properties.                                                             *)
(***************************************************************************)
GefDone == gef.status = "done"

\* The call in progress is getEditorFrame itself and has returned or thrown.
GefCallDone == call = "getEditorFrame" /\ pc = "done"

\* C1: publish() returns a URL whenever at least one of its two URL sources
\* has yielded one, whatever the order in which the two settle, and the URL
\* is one a source yielded.
C1_PublishReturnsAnyYieldedURL ==
    (call = "publish" /\ \E t \in URLRace : tasks[t] = "ok")
        => /\ race.status = "ok"
           /\ \/ race.value = "urlFromPanel" /\ tasks["getPublishedURL"] = "ok"
              \/ race.value = "urlFromToast" /\ tasks["getPublishedURLFromToast"] = "ok"
           /\ ~visit => result.status # "error"

\* t is s without its leading and trailing whitespace.
IsTrimOf(t, s) ==
    \E i, j \in 0..Len(s) :
        /\ i + j <= Len(s)
        /\ t = SubSeq(s, i + 1, Len(s) - j)
        /\ \A k \in 1..i : s[k] \in WhiteSpace
        /\ \A k \in (Len(s) - j + 1)..Len(s) : s[k] \in WhiteSpace
        /\ t # << >> => t[1] \notin WhiteSpace /\ t[Len(t)] \notin WhiteSpace

\* C2: for every title s and every value t read back, enterTitle(s) completes
\* without error exactly when t is s with its leading and trailing whitespace
\* removed, and otherwise throws the verification error naming got and expected.
C2_TitleVerifiedAgainstTrim ==
    (call = "enterTitle" /\ readBack # Unread)
        => /\ pc = "done"
           /\ IF IsTrimOf(readBack, text)
              THEN result.status = "ok"
              ELSE /\ result.status = "error"
                   /\ \E e \in Strings :
                         /\ IsTrimOf(e, text)
                         /\ result.value = << "Failed to verify title: got", readBack,
                                              "expected", e >>

C2_Witness ==
    /\ call = "enterTitle"
    /\ text = << " ", "a", "\t" >>
    /\ readBack = << "a" >>
    /\ result.status = "ok"

\* C3: enterText(text) fails when the body text read back differs from the
\* text entered.
C3_TextMismatchFails ==
    (call = "enterText" /\ readBack # Unread /\ readBack # text)
        => result.status = "error"

\* C4: with requiresGutenframe = true, getEditorFrame never returns the
\* top-level frame, whatever the URL: it returns the content frame of the
\* located iframe or throws 'Could not locate editor iframe'.
C4_StrictNeverTopFrame ==
    (requiresGutenframe /\ GefDone)
        => /\ gef.ret # "mainFrame"
           /\ \/ gef.ret = "contentFrame" /\ gef.lookup = "found"
              \/ gef.ret = "Could not locate editor iframe" /\ gef.lookup # "found"
           /\ GefCallDone =>
                 \/ result = Ok("contentFrame")
                 \/ result = Err("Could not locate editor iframe")

C4_Witness ==
    /\ requiresGutenframe
    /\ GefCallDone
    /\ gef.urlAtCall = "wp-admin"
    /\ result = Err("Could not locate editor iframe")

\* C5: with requiresGutenframe = false, getEditorFrame never throws: a
\* located iframe gives its content frame, a failed or timed-out lookup gives
\* the top-level frame and a console notice.
C5_LenientNeverFails ==
    (~requiresGutenframe /\ GefDone)
        => /\ gef.ret \in {"mainFrame", "contentFrame"}
           /\ gef.lookup = "found" => gef.ret = "contentFrame"
           /\ gef.lookup \in {"timeout", "detached"} =>
                 gef.ret = "mainFrame" /\ gef.notice
           /\ GefCallDone => result = Ok(gef.ret)

C5_Witness ==
    /\ ~requiresGutenframe
    /\ GefCallDone
    /\ gef.lookup = "timeout"
    /\ gef.notice
    /\ result = Ok("mainFrame")

LookupEntry == Entry("elementHandle(editorFrame)", "page")

\* C6: with requiresGutenframe = false on a URL containing '/wp-admin',
\* getEditorFrame returns the top-level frame without any lookup of the
\* iframe; in every other case the lookup is issued before a frame is returned.
C6_LookupSkippedOnlyOnWpAdmin ==
    /\ gef.status # "none" =>
          IF ~requiresGutenframe /\ gef.urlAtCall = "wp-admin"
          THEN ~gef.looked /\ GefDone /\ gef.ret = "mainFrame" /\ gef.lookup = "none"
          ELSE gef.looked /\ (GefDone => gef.lookup \in {"found", "timeout", "detached"})
    /\ call = "getEditorFrame" =>
          IF ~requiresGutenframe /\ gef.urlAtCall = "wp-admin"
          THEN log = << >> /\ result = Ok("mainFrame")
          ELSE log = << LookupEntry >>

C6_Witness ==
    /\ ~requiresGutenframe
    /\ GefCallDone
    /\ gef.urlAtCall = "wp-admin"
    /\ log = << >>
    /\ result = Ok("mainFrame")

\* C7: when waitUntilLoaded has resolved the editor surface to the top-level
\* frame, its title wait targets the top-level frame too, or the call fails.
C7_TitleWaitOnResolvedSurface ==
    (call = "waitUntilLoaded" /\ frame["waitUntilLoaded"] = "mainFrame"
        /\ result.status = "ok")
        => \A i \in DOMAIN log :
              log[i].op = "waitFor(editorTitle)" => log[i].on = "mainFrame"

\* C8: in a settings workflow on a sidebar showing exactly one of the two
\* tabs, once the click on that tab has succeeded the tab race has succeeded
\* and the workflow has gone on to its next step, whether the click on the
\* missing tab failed before or after.
C8_TabRaceFollowsExistingTab ==
    (call \in TabWorkflows /\ Cardinality(tabs) = 1
        /\ \E t \in TabRace : TabOf(t) \in tabs /\ tasks[t] = "ok")
        => /\ race.status = "ok"
           /\ Len(log) >= 3
           /\ log[3] = StepsAfterTab(call)[1]

\* C9 as stated: exitEditor() has resolved as soon as the navigation race has
\* observed a matching navigation, waiting for nothing else.
C9_ResolvesOnNavigationAlone ==
    (call = "exitEditor" /\ race.status = "ok") => result.status = "ok"

\* C9, amended: exitEditor() has resolved exactly when the first navigation
\* wait to settle has observed a matching navigation and the exit action has
\* completed; the other two navigations need not occur, and while the exit
\* action is pending exitEditor is pending too.
C9_ResolvesOnNavigationAndExitAction ==
    call = "exitEditor" =>
        /\ (race.status = "ok" /\ tasks["exitAction"] = "ok") <=> result.status = "ok"
        /\ (race.status = "ok" /\ tasks["exitAction"] = "pending")
              => result.status = "pending"
        /\ result.status = "ok" => \E t \in NavRace : tasks[t] = "ok"

C9_Witness ==
    /\ call = "exitEditor"
    /\ result = Ok("void")
    /\ Cardinality({t \in NavRace : tasks[t] = "pending"}) = 2

\* C10: previewAsMobile() outside the mobile viewport and previewAsDesktop()
\* in the mobile viewport throw before any UI action is issued; in every
\* viewport exactly one of the two gets to its toolbar action.
C10_PreviewsExcludeEachOther ==
    /\ call = "previewAsMobile" =>
          IF viewport = "mobile"
          THEN log = << Toolbar("openMobilePreview") >>
          ELSE log = << >> /\ result = Err("This method only works in mobile viewport")
    /\ call = "previewAsDesktop" =>
          IF viewport \in {"desktop", "tablet"}
          THEN log = << Toolbar("openDesktopPreview") >>
          ELSE log = << >> /\ result = Err("This method only works in non-mobile viewport")

C10_Witness ==
    /\ call = "previewAsMobile"
    /\ viewport = "tablet"
    /\ log = << >>
    /\ result.status = "error"


\* The positions of the log at which primitive e was issued.
Issued(e) == {i \in DOMAIN log : log[i] = e}

\* C11: in every addBlock call the block inserter is closed only after the
\* handle of the inserted block has been obtained and never on mobile; a call
\* that succeeds has closed it exactly once outside mobile and returns the
\* handle obtained before the close.
C11_InserterClosedOnceAfterHandle ==
    call = "addBlock" =>
        LET closes == Issued(Toolbar("closeBlockInserter"))
            gets == Issued(Gutenberg("getSelectedBlockElementHandle"))
        IN  /\ viewport = "mobile" => closes = {}
            /\ \A i \in closes :
                  /\ blockHandle \in Handles
                  /\ \E j \in gets : j < i
            /\ result.status = "ok" =>
                  /\ Cardinality(closes) = IF viewport = "mobile" THEN 0 ELSE 1
                  /\ Cardinality(gets) = 1
                  /\ blockHandle \in Handles
                  /\ result.value = blockHandle

C11_Witness ==
    /\ call = "addBlock"
    /\ viewport = "tablet"
    /\ result = Ok("handle2")
    /\ log[Len(log)] = Toolbar("closeBlockInserter")

C11_WitnessMobile ==
    /\ call = "addBlock"
    /\ viewport = "mobile"
    /\ result = Ok("handle1")


\* C12: closeAllPanels() starts all three closes whatever becomes of the
\* others, never fails, and has returned exactly when all three have settled,
\* for every combination of successes and failures.
C12_CloseAllPanelsNeverFails ==
    call = "closeAllPanels" =>
        /\ log = << PublishPanel("closePanel"), NavSidebar("closeSidebar"),
                    Toolbar("closeSettings") >>
        /\ result.status # "error"
        /\ result.status = "ok" <=> \A t \in CloseTasks : tasks[t] \in {"ok", "fail"}

C12_Witness ==
    /\ call = "closeAllPanels"
    /\ result = Ok("void")
    /\ tasks["closePanel"] = "fail"
    /\ tasks["closeSidebar"] = "ok"
    /\ tasks["closeSettings"] = "fail"


\* C13: publish() fails when neither the panel readout nor the toast link
\* yields a URL, a toast link without href included, and what it returns is
\* always a URL one of the two sources parsed, never null.
C13_PublishFailsWithoutURL ==
    call = "publish" =>
        /\ (\A t \in URLRace : tasks[t] = "fail") => result.status = "error"
        /\ result.status = "ok" => result.value \in {"urlFromPanel", "urlFromToast"}
        /\ race.status = "ok" => race.value \in {"urlFromPanel", "urlFromToast"}

C13_Witness ==
    /\ call = "publish"
    /\ \A t \in URLRace : tasks[t] = "fail"
    /\ result = Err("TypeError: Invalid URL")


\* C14: publish( { visit: true } ) navigates to the published URL only once
\* the race has given it and returns it only when the content of the post has
\* been confirmed visible; without visit no navigation is issued; when the
\* last try of the confirmation fails, publish fails.
C14_VisitAfterURLReturnAfterShown ==
    call = "publish" =>
        LET gotos == Issued(Entry("goto(publishedURL)", "page"))
            confirms == Issued(ConfirmPostShown)
        IN  /\ gotos # {} => visit /\ race.status = "ok"
            /\ ~visit => gotos = {} /\ confirms = {} /\ Issued(Reload) = {}
            /\ \A i \in confirms : \E j \in gotos : j < i
            /\ (visit /\ result.status = "ok") =>
                  /\ Cardinality(gotos) = 1
                  /\ confirms # {}
                  /\ \A r \in Issued(Reload) : \E i \in confirms : r < i
                  /\ shown
                  /\ result.value = race.value
            /\ (visit /\ pc = "done" /\ ~shown) => result.status = "error"

C14_Witness ==
    /\ call = "publish"
    /\ visit
    /\ result = Ok("urlFromToast")
    /\ Cardinality(Issued(ConfirmPostShown)) = RetryBudget

C14_WitnessFails ==
    /\ call = "publish"
    /\ visit
    /\ result = Err("waitForSelector(.entry-content)")
    /\ Cardinality(Issued(ConfirmPostShown)) = RetryBudget


\* The UI steps of the call, the lookup of the editor frame left out.
StepsTaken == LET IsStep(e) == e # LookupEntry IN SelectSeq(log, IsStep)

\* C15: unpublish() switches to draft, then clicks OK in the dialog, then
\* waits for the notice 'Post reverted to draft.', in this order; it succeeds
\* only when the wait for the notice has, and it fails with the error of the
\* click or of the wait when the button or the notice does not appear.
C15_UnpublishInOrder ==
    call = "unpublish" =>
        LET f == frame["unpublish"]
            click == Entry("click(dialog OK)", f)
            wait == Entry("waitForSelector(Post reverted to draft.)", f)
            all == << Toolbar("switchToDraft"), click, wait >>
        IN  /\ \E n \in 1..3 : StepsTaken = SubSeq(all, 1, n)
            /\ result.status = "ok" => StepsTaken = all /\ f \in {"contentFrame", "mainFrame"}
            /\ (pc = "done" /\ StepsTaken = << Toolbar("switchToDraft"), click >>)
                  => result = Err("click(dialog OK)")
            /\ (pc = "done" /\ StepsTaken = all)
                  => result \in {Ok("void"), Err("waitForSelector(Post reverted to draft.)")}

C15_Witness ==
    /\ call = "unpublish"
    /\ result = Ok("void")
    /\ frame["unpublish"] = "contentFrame"

C15_WitnessNoNotice ==
    /\ call = "unpublish"
    /\ result = Err("waitForSelector(Post reverted to draft.)")


\* C16: when every browser primitive eventually succeeds or times out, every
\* workflow call eventually returns or fails, the races of publish, of
\* exitEditor and of the tab resolution and the reload-and-retry included.
C16_EveryCallEnds == (call # "idle") ~> (pc = "done")

C16_Witness ==
    /\ call = "exitEditor"
    /\ pc = "done"
    /\ race.status = "error"
    /\ \E t \in NavRace : tasks[t] = "pending"


\* The panels a close operation is to close, by viewport.
PanelsOf(c, v) ==
    CASE c = "closeAllPanels" -> {"publishPanel", "navSidebar", "settings"}
      [] c = "closeSettings" -> {"settings"}
      [] c = "closePreview" -> IF v = "mobile" THEN {} ELSE {"preview"}
      [] OTHER -> {}

\* C17: a close operation (closeAllPanels, closeSettings, closePreview) called
\* again right after a first call of it, its panels being closed already,
\* raises no error.
C17_SecondCloseRaisesNoError ==
    (call \in CloseCalls /\ prev.call = call) =>
        /\ PanelsOf(call, viewport) \cap open = {} => result.status # "error"
        /\ call = "closeAllPanels" => result.status # "error"
        /\ (call = "closePreview" /\ viewport = "mobile") => result = Ok("void") /\ log = << >>

C17_Witness ==
    /\ call = "closeSettings"
    /\ prev.call = "closeSettings"
    /\ prev.status = "ok"
    /\ log = << Toolbar("closeSettings") >>
    /\ result = Ok("void")

C17_WitnessPreview ==
    /\ call = "closePreview"
    /\ prev.call = "closePreview"
    /\ prev.status = "ok"
    /\ log = << Toolbar("openDesktopPreview(Desktop)") >>
    /\ result = Ok("void")


\* The promises that click, close or exit when they run.
MutatingTasks == TabRace \cup CloseTasks \cup {"exitAction"}

\* C18: at no time are two UI-mutating actions in flight together, and once
\* a race is decided its loser does nothing more to the UI: of the two tab
\* clicks of a settings workflow at most one is pending and at most one is
\* done.
C18_OneMutationInFlight ==
    /\ Cardinality({t \in MutatingTasks : tasks[t] = "pending"}) <= 1
    /\ call \in TabWorkflows =>
          Cardinality({t \in TabRace : tasks[t] = "ok"}) <= 1

\* What a call may issue again: the lookup of the editor frame, which changes
\* nothing, and the reload and the visibility check of reloadAndRetry.
Repeatable == {LookupEntry, Reload, ConfirmPostShown}

\* C19: no call issues a UI-mutating step twice, the reload-and-retry of the
\* visibility check apart; the dispatch that dismisses the welcome tour is
\* issued at most once per call.
C19_NoStepRepeated ==
    \A i, j \in DOMAIN log :
        (i < j /\ log[i] = log[j]) => log[i] \in Repeatable


\* The call in progress repeats a getEditorFrame call, and the URL and the
\* presence of the iframe have been the same from the start of the first call
\* on: a lookup that found the iframe detached has seen it change.
SameSurroundings ==
    /\ prev.call = "getEditorFrame"
    /\ call = "getEditorFrame"
    /\ prev.urlAtCall = url /\ gef.urlAtCall = url
    /\ prev.iframeAtCall = iframeLoaded /\ gef.iframeAtCall = iframeLoaded
    /\ prev.lookup # "detached" /\ gef.lookup # "detached"

C20_WitnessThrows ==
    /\ SameSurroundings
    /\ pc = "done"
    /\ prev.status = "error"
    /\ result = Err("Could not locate editor iframe")


\* The reads of the two URL sources of publish.
URLReads ==
    {i \in DOMAIN log : log[i].op \in {"getPublishedURL", "getAttribute(href)"}}

\* C21: in publish() the second stage, the publish of the publish panel, is
\* invoked exactly when panelIsOpen() has reported the panel open; it comes
\* after the click on the toolbar and the report and before any read of a URL
\* source, and with the panel reported closed the race follows at once.
C21_SecondStageIffPanelOpen ==
    /\ [](call = "publish" =>
             LET stage == Issued(PublishPanel("publish")) IN
             /\ Cardinality(stage) <= 1
             /\ \A i \in stage :
                   /\ \E j \in Issued(Toolbar("clickPublish")) : j < i
                   /\ \E j \in Issued(PublishPanel("panelIsOpen")) : j < i
                   /\ \A k \in URLReads : i < k)
    /\ [][(pc = "publish:panelIsOpen" /\ pc' \notin {"publish:panelIsOpen", "done"}) =>
             IF "publishPanel" \in open'
             THEN /\ cur' = PublishPanel("publish")
                  /\ log' = Append(log, PublishPanel("publish"))
             ELSE /\ pc' = "publish:race"
                  /\ PublishPanel("publish") \notin {log'[i] : i \in DOMAIN log'}
                  /\ PublishPanel("getPublishedURL") \in {log'[i] : i \in DOMAIN log'}]_vars

C21_Witness ==
    /\ call = "publish"
    /\ result.status = "ok"
    /\ Issued(PublishPanel("publish")) = {3}
    /\ URLReads # {}

C21_WitnessSkipped ==
    /\ call = "publish"
    /\ result.status = "ok"
    /\ Issued(PublishPanel("publish")) = {}


\* C22 as stated: in every workflow other than closeAllPanels the failure of
\* any step, a member of a race and the lookup of the editor iframe included,
\* makes the workflow fail.
C22_EveryFailureFailsTheCall ==
    (call \notin {"idle", "closeAllPanels"} /\ pc = "done") =>
        ((\/ failed # NoEntry
          \/ \E t \in TaskNames : tasks[t] = "fail"
          \/ gef.lookup \in {"timeout", "detached"})
            => result.status = "error")

\* C22, amended: when a step a workflow awaits by itself is rejected, the
\* workflow has thrown that step's error and issues no later step of its
\* sequence; the visibility check that reloadAndRetry tries again is the one
\* exception, and only the read a race's loser had still to make can follow.
C22_AwaitedFailurePropagates ==
    /\ []((call # "idle" /\ failed # NoEntry /\ failed # ConfirmPostShown) =>
             /\ pc = "done"
             /\ cur = NoEntry
             /\ result = Err(failed.op))
    /\ [][(failed' # NoEntry /\ failed' # ConfirmPostShown /\ call' = call) =>
             \/ log' = log
             \/ /\ failed = failed'
                /\ \E f \in {"mainFrame", "contentFrame"} :
                      log' = Append(log, Entry("getAttribute(href)", f))]_vars

C22_Witness ==
    /\ call = "addBlock"
    /\ viewport = "desktop"
    /\ failed = Gutenberg("getSelectedBlockElementHandle")
    /\ result = Err("getSelectedBlockElementHandle")
    /\ Issued(Toolbar("closeBlockInserter")) = {}

C22_WitnessPublish ==
    /\ call = "publish"
    /\ failed = Toolbar("clickPublish")
    /\ result = Err("clickPublish")
    /\ URLReads = {}


SectionOf(c) ==
    CASE c \in {"setArticleVisibility", "schedule"} ->
            "expandSection(Status & Visibility)"
      [] c = "selectCategory" -> "expandSection(Categories)"
      [] c = "addTag" -> "expandSection(Tags)"
      [] c = "setURLSlug" -> "expandSection(Permalink)"

SubControlOf(c) ==
    CASE c = "setArticleVisibility" ->
            << "openVisibilityOptions", "selectVisibility", "closeVisibilityOptions" >>
      [] c = "schedule" -> << "openSchedule", "setScheduleDetails", "closeSchedule" >>
      [] c = "selectCategory" -> << "none", "checkCategory", "none" >>
      [] c = "addTag" -> << "none", "enterTag", "none" >>
      [] c = "setURLSlug" -> << "none", "enterUrlSlug", "none" >>

\* The positions of the log at which operation op was issued.
IssuedOp(op) == {i \in DOMAIN log : log[i].op = op}

\* C24: setArticleVisibility, selectCategory, addTag, setURLSlug and schedule
\* issue the two tab clicks first, expand their own section only when the tab
\* race has succeeded, and set the value only after that; for visibility and
\* schedule the sub-control is opened before the value is set and closed
\* after; a workflow that returns has issued each of these once.
C24_SectionBeforeValue ==
    call \in TabWorkflows \ {"viewRevisions"} =>
        LET expand == IssuedOp("expandSection(Status & Visibility)")
                        \cup IssuedOp("expandSection(Categories)")
                        \cup IssuedOp("expandSection(Tags)")
                        \cup IssuedOp("expandSection(Permalink)")
            own == IssuedOp(SectionOf(call))
            opens == IssuedOp(SubControlOf(call)[1])
            sets == IssuedOp(SubControlOf(call)[2])
            closes == IssuedOp(SubControlOf(call)[3])
        IN  /\ Len(log) >= 2
            /\ {log[1].op, log[2].op} = {"clickTab(Page)", "clickTab(Post)"}
            /\ Len(log) > 2 => race.status = "ok"
            /\ expand = own
            /\ \A i \in own : i = 3
            /\ \A i \in sets : own # {} /\ \A j \in own : j < i
            /\ \A i \in opens : \A j \in own : j < i
            /\ SubControlOf(call)[1] # "none" =>
                  /\ \A i \in sets : opens # {} /\ \A j \in opens : j < i
                  /\ \A i \in closes : sets # {} /\ \A j \in sets : j < i
            /\ result.status = "ok" =>
                  /\ Cardinality(own) = 1
                  /\ Cardinality(sets) = 1
                  /\ SubControlOf(call)[1] # "none" =>
                        Cardinality(opens) = 1 /\ Cardinality(closes) = 1

C24_Witness ==
    /\ call = "schedule"
    /\ result = Ok("void")
    /\ Len(log) = 6
    /\ log[6].op = "closeSchedule"


\* C25: addBlock issues, in this order, the reset of the selected block, the
\* opening of the block inserter, the search, the selection of the result and
\* the request for the handle of the selected block; a step is issued only
\* when the one before it has completed, so the step awaited is always the
\* last one issued.
C25_AddBlockStepsInOrder ==
    call = "addBlock" =>
        LET order == << "resetSelectedBlock", "openBlockInserter",
                        "searchBlockInserter", "selectBlockInserterResult",
                        "getSelectedBlockElementHandle", "closeBlockInserter" >>
        IN  /\ Len(log) \in 1..6
            /\ \A i \in DOMAIN log : log[i].op = order[i]
            /\ cur # NoEntry => cur = log[Len(log)]
            /\ cur = NoEntry => pc = "done"
            /\ blockHandle # "none" => Len(log) >= 5
            /\ (pc = "done" /\ failed = NoEntry) => Len(log) >= 5

C25_Witness ==
    /\ call = "addBlock"
    /\ Len(log) = 4
    /\ cur = Entry("selectBlockInserterResult", "editorGutenbergComponent")
    /\ pc = "addBlock"


(***************************************************************************)
(* C26: in visitPublishedPost the dialog listener is registered before the *)
(* navigation to the published URL is issued and accepts at most one       *)
(* dialog; a dialog raised by the navigation is accepted; and once the     *)
(* publish call has returned, no listener it registered is still active on *)
(* the page.                                                               *)
(***************************************************************************)
C26_ListenerGoneAfterReturn ==
    /\ \A g \in IssuedOp("goto(publishedURL)") :
           \E r \in IssuedOp("once(dialog)") : r < g
    /\ ActiveListeners >= 0
    /\ (call = "publish" /\ pc = "done") => ActiveListeners = 0

\* A publish( { visit: true } ) call has returned normally, its navigation
\* raised no dialog, and its listener is still registered on the page.
C26_ListenerLeftBehind ==
    /\ call = "publish" /\ pc = "done" /\ result.status = "ok"
    /\ IssuedOp("goto(publishedURL)") # {}
    /\ IssuedOp("dialog.accept") = {}
    /\ ActiveListeners = 1

\* The navigation raised the dialog and the listener accepted it.
C26_DialogAccepted ==
    /\ call = "publish" /\ pc = "done"
    /\ IssuedOp("dialog.accept") # {}
    /\ ActiveListeners = 0


(***************************************************************************)
(* C27: onKeyDown calls preventDefault if and only if Shift is not held    *)
(* and the key is ArrowUp, ArrowDown or Enter; then ArrowUp calls          *)
(* selectPreviousResult, ArrowDown calls selectNextResult, and Enter calls *)
(* openResult with the selected result exactly when selectedResultIndex    *)
(* >= 0; for any other key, or with Shift held, no prop is called and the  *)
(* event is left as it was.                                                *)
(***************************************************************************)
C27_KeyTakenOver ==
    [][(event' # event \/ called' # called) =>
        LET ours == ~event'.shift /\ event'.key \in {"ArrowUp", "ArrowDown", "Enter"}
        IN  /\ event'.defaultPrevented <=> ours
            /\ ours /\ event'.key = "ArrowUp"
                   => called' = [handler |-> "selectPreviousResult", arg |-> "none"]
            /\ ours /\ event'.key = "ArrowDown"
                   => called' = [handler |-> "selectNextResult", arg |-> "none"]
            /\ ours /\ event'.key = "Enter" /\ selectedResultIndex >= 0
                   => called' = [handler |-> "openResult", arg |-> selectedResult]
            /\ ours /\ event'.key = "Enter" /\ selectedResultIndex < 0
                   => called'.handler = "none"
            /\ ~ours => called'.handler = "none"]_vars

\* Enter without Shift on a selected result: the event is taken over and the
\* result opened.
C27_Witness ==
    /\ event = [key |-> "Enter", shift |-> FALSE, defaultPrevented |-> TRUE]
    /\ called = [handler |-> "openResult", arg |-> "result2"]

\* An arrow key pressed with Shift held is left alone.
C27_WitnessShift ==
    /\ event = [key |-> "ArrowDown", shift |-> TRUE, defaultPrevented |-> FALSE]
    /\ called.handler = "none"


(***************************************************************************)
(* C28: saveBrowserLogs and closeBrowser do nothing while no createBrowser *)
(* call has completed; once one has completed they act on the driver of    *)
(* the createBrowser that completed last; and no driver is passed to       *)
(* closeBrowser, or used by saveBrowserLogs, after it has been closed.     *)
(***************************************************************************)
C28_HooksUseLiveDriver ==
    /\ lastCall.latest = 0 => lastCall.fn = "none"
    /\ lastCall.hook # "none" /\ lastCall.latest > 0
          => lastCall.fn = lastCall.hook /\ lastCall.driver = lastCall.latest
    /\ lastCall.fn # "none" => ~lastCall.closedBefore

\* The parts of the claim that hold: nothing is done before a createBrowser
\* has completed, and afterwards the hooks act on the latest driver.
C28_HooksUseLatestDriver ==
    /\ lastCall.latest = 0 => lastCall.fn = "none"
    /\ lastCall.hook # "none" /\ lastCall.latest > 0
          => lastCall.fn = lastCall.hook /\ lastCall.driver = lastCall.latest

\* closeBrowser is given a driver it has closed before.
C28_ClosedTwice ==
    /\ lastCall.hook = "closeBrowser" /\ lastCall.fn = "closeBrowser"
    /\ lastCall.closedBefore


(***************************************************************************)
(* C29: BlockFramePreview has at most one resize listener and at most one  *)
(* wp-collapse-menu handler registered at any time, none after unmount,    *)
(* and no rescale changes the style after unmount, even when a debounced   *)
(* resize call was still pending at unmount.                               *)
(***************************************************************************)
C29_ListenersAndStyle ==
    /\ [](/\ Len(resizeListeners) <= 1
          /\ Len(collapseListeners) <= 1
          /\ mounted = "unmounted"
                => resizeListeners = << >> /\ collapseListeners = << >>)
    /\ [][mounted = "unmounted" => style' = style]_vars

\* A debounced rescale that was pending at unmount has run afterwards.
C29_Witness ==
    /\ mounted = "unmounted"
    /\ lateRescales > 0
    /\ jQuery
    /\ style # InitialStyle

====
